---- MODULE Spec2Model ----
(***************************************************************************)
(* Model of src/app.py, the Streamlit page "Iris EDA".                     *)
(*                                                                         *)
(* The script is run top to bottom by Streamlit once when the session      *)
(* starts and once more after every widget change (a "render pass").  The  *)
(* only state that survives a pass is Streamlit's widget state, keyed by   *)
(* the widgets' key= arguments; every name the script binds is rebuilt by  *)
(* the next pass.                                                          *)
(*                                                                         *)
(* Numbers: a measurement is held in tenths of a centimetre (5.1 cm is     *)
(* 51), so that the arithmetic of the libraries is exact integer           *)
(* arithmetic.  Histogram positions are held in thousandths of a           *)
(* centimetre (Milli), which makes every bin size and half bin size that   *)
(* the binning can choose for a bin count of at least 5 an integer.        *)
(***************************************************************************)
EXTENDS Integers, Sequences, FiniteSets, TLC

VARIABLES
    pc,                        \* position of the running script
    runs,                      \* script runs started in this session
    loadCount,                 \* calls of load_iris() that returned
    session_state,             \* Streamlit widget state: key -> value
    iris_df,                   \* the DataFrame of this pass
    numeric_columns,           \* line 63
    selected_histogram_column, \* line 70
    histogram_bins,            \* line 76
    scatter_x_column,          \* line 87
    scatter_y_column,          \* line 93
    histogram,                 \* line 106
    scatter,                   \* line 125
    correlation_matrix,        \* line 148
    species_counts,            \* line 172
    output                     \* elements sent to the page by this pass

vars == <<pc, runs, loadCount, session_state, iris_df, numeric_columns,
          selected_histogram_column, histogram_bins, scatter_x_column,
          scatter_y_column, histogram, scatter, correlation_matrix,
          species_counts, output>>

(***************************************************************************)
(* Bounds of the model.                                                    *)
(***************************************************************************)
\* script runs explored in one session (the first run and MaxRuns - 1 reruns)
MaxRuns == 3

(***************************************************************************)
(* sklearn.datasets.load_iris(): the bunch the script reads on line 29.    *)
(* data is in tenths of a centimetre; target is 0, 1 or 2.                 *)
(***************************************************************************)
IrisData ==
  <<
     <<51, 35, 14, 2>>, <<49, 30, 14, 2>>, <<47, 32, 13, 2>>, <<46, 31, 15, 2>>, <<50, 36, 14, 2>>,
     <<54, 39, 17, 4>>, <<46, 34, 14, 3>>, <<50, 34, 15, 2>>, <<44, 29, 14, 2>>, <<49, 31, 15, 1>>,
     <<54, 37, 15, 2>>, <<48, 34, 16, 2>>, <<48, 30, 14, 1>>, <<43, 30, 11, 1>>, <<58, 40, 12, 2>>,
     <<57, 44, 15, 4>>, <<54, 39, 13, 4>>, <<51, 35, 14, 3>>, <<57, 38, 17, 3>>, <<51, 38, 15, 3>>,
     <<54, 34, 17, 2>>, <<51, 37, 15, 4>>, <<46, 36, 10, 2>>, <<51, 33, 17, 5>>, <<48, 34, 19, 2>>,
     <<50, 30, 16, 2>>, <<50, 34, 16, 4>>, <<52, 35, 15, 2>>, <<52, 34, 14, 2>>, <<47, 32, 16, 2>>,
     <<48, 31, 16, 2>>, <<54, 34, 15, 4>>, <<52, 41, 15, 1>>, <<55, 42, 14, 2>>, <<49, 31, 15, 2>>,
     <<50, 32, 12, 2>>, <<55, 35, 13, 2>>, <<49, 36, 14, 1>>, <<44, 30, 13, 2>>, <<51, 34, 15, 2>>,
     <<50, 35, 13, 3>>, <<45, 23, 13, 3>>, <<44, 32, 13, 2>>, <<50, 35, 16, 6>>, <<51, 38, 19, 4>>,
     <<48, 30, 14, 3>>, <<51, 38, 16, 2>>, <<46, 32, 14, 2>>, <<53, 37, 15, 2>>, <<50, 33, 14, 2>>,
     <<70, 32, 47, 14>>, <<64, 32, 45, 15>>, <<69, 31, 49, 15>>, <<55, 23, 40, 13>>, <<65, 28, 46, 15>>,
     <<57, 28, 45, 13>>, <<63, 33, 47, 16>>, <<49, 24, 33, 10>>, <<66, 29, 46, 13>>, <<52, 27, 39, 14>>,
     <<50, 20, 35, 10>>, <<59, 30, 42, 15>>, <<60, 22, 40, 10>>, <<61, 29, 47, 14>>, <<56, 29, 36, 13>>,
     <<67, 31, 44, 14>>, <<56, 30, 45, 15>>, <<58, 27, 41, 10>>, <<62, 22, 45, 15>>, <<56, 25, 39, 11>>,
     <<59, 32, 48, 18>>, <<61, 28, 40, 13>>, <<63, 25, 49, 15>>, <<61, 28, 47, 12>>, <<64, 29, 43, 13>>,
     <<66, 30, 44, 14>>, <<68, 28, 48, 14>>, <<67, 30, 50, 17>>, <<60, 29, 45, 15>>, <<57, 26, 35, 10>>,
     <<55, 24, 38, 11>>, <<55, 24, 37, 10>>, <<58, 27, 39, 12>>, <<60, 27, 51, 16>>, <<54, 30, 45, 15>>,
     <<60, 34, 45, 16>>, <<67, 31, 47, 15>>, <<63, 23, 44, 13>>, <<56, 30, 41, 13>>, <<55, 25, 40, 13>>,
     <<55, 26, 44, 12>>, <<61, 30, 46, 14>>, <<58, 26, 40, 12>>, <<50, 23, 33, 10>>, <<56, 27, 42, 13>>,
     <<57, 30, 42, 12>>, <<57, 29, 42, 13>>, <<62, 29, 43, 13>>, <<51, 25, 30, 11>>, <<57, 28, 41, 13>>,
     <<63, 33, 60, 25>>, <<58, 27, 51, 19>>, <<71, 30, 59, 21>>, <<63, 29, 56, 18>>, <<65, 30, 58, 22>>,
     <<76, 30, 66, 21>>, <<49, 25, 45, 17>>, <<73, 29, 63, 18>>, <<67, 25, 58, 18>>, <<72, 36, 61, 25>>,
     <<65, 32, 51, 20>>, <<64, 27, 53, 19>>, <<68, 30, 55, 21>>, <<57, 25, 50, 20>>, <<58, 28, 51, 24>>,
     <<64, 32, 53, 23>>, <<65, 30, 55, 18>>, <<77, 38, 67, 22>>, <<77, 26, 69, 23>>, <<60, 22, 50, 15>>,
     <<69, 32, 57, 23>>, <<56, 28, 49, 20>>, <<77, 28, 67, 20>>, <<63, 27, 49, 18>>, <<67, 33, 57, 21>>,
     <<72, 32, 60, 18>>, <<62, 28, 48, 18>>, <<61, 30, 49, 18>>, <<64, 28, 56, 21>>, <<72, 30, 58, 16>>,
     <<74, 28, 61, 19>>, <<79, 38, 64, 20>>, <<64, 28, 56, 22>>, <<63, 28, 51, 15>>, <<61, 26, 56, 14>>,
     <<77, 30, 61, 23>>, <<63, 34, 56, 24>>, <<64, 31, 55, 18>>, <<60, 30, 48, 18>>, <<69, 31, 54, 21>>,
     <<67, 31, 56, 24>>, <<69, 31, 51, 23>>, <<58, 27, 51, 19>>, <<68, 32, 59, 23>>, <<67, 33, 57, 25>>,
     <<67, 30, 52, 23>>, <<63, 25, 50, 19>>, <<65, 30, 52, 20>>, <<62, 34, 54, 23>>, <<59, 30, 51, 18>>
  >>

IrisTarget == [i \in 1..Len(IrisData) |-> (i - 1) \div 50]

IrisFeatureNames ==
  <<"sepal length (cm)", "sepal width (cm)", "petal length (cm)", "petal width (cm)">>

IrisTargetNames == <<"setosa", "versicolor", "virginica">>

load_iris ==
  [data |-> IrisData, target |-> IrisTarget,
   feature_names |-> IrisFeatureNames, target_names |-> IrisTargetNames]

(***************************************************************************)
(* Helpers over sequences and sets.                                        *)
(***************************************************************************)
Range(s) == {s[i] : i \in DOMAIN s}

IndexOf(s, x) == CHOOSE i \in DOMAIN s : s[i] = x

\* sum, least and greatest element of s[lo..hi], by halving the range
RECURSIVE SumRange(_, _, _)
SumRange(s, lo, hi) ==
  IF lo > hi THEN 0
  ELSE IF lo = hi THEN s[lo]
  ELSE LET mid == (lo + hi) \div 2
       IN  SumRange(s, lo, mid) + SumRange(s, mid + 1, hi)

SumSeq(s) == SumRange(s, 1, Len(s))

RECURSIVE MinRange(_, _, _)
MinRange(s, lo, hi) ==
  IF lo = hi THEN s[lo]
  ELSE LET mid == (lo + hi) \div 2
           a   == MinRange(s, lo, mid)
           b   == MinRange(s, mid + 1, hi)
       IN  IF a <= b THEN a ELSE b

MinSeq(s) == MinRange(s, 1, Len(s))

RECURSIVE MaxRange(_, _, _)
MaxRange(s, lo, hi) ==
  IF lo = hi THEN s[lo]
  ELSE LET mid == (lo + hi) \div 2
           a   == MaxRange(s, lo, mid)
           b   == MaxRange(s, mid + 1, hi)
       IN  IF a >= b THEN a ELSE b

MaxSeq(s) == MaxRange(s, 1, Len(s))

\* the distinct elements of s, in order of first appearance
Unique(s) ==
  LET firsts == SelectSeq([i \in DOMAIN s |-> i],
                          LAMBDA i : \A j \in 1..(i - 1) : s[j] # s[i])
  IN  [k \in DOMAIN firsts |-> s[firsts[k]]]

Count(s, x) == Cardinality({i \in DOMAIN s : s[i] = x})

(***************************************************************************)
(* pandas: a DataFrame is its column names, the dtype of each column and   *)
(* its rows; a row maps each column name to a value.                       *)
(***************************************************************************)
NoFrame == [columns |-> <<>>, dtypes |-> <<>>, rows |-> <<>>]

\* pd.DataFrame(data=..., columns=...), lines 30-33
DataFrame(data, columns) ==
  [columns |-> columns,
   dtypes  |-> [i \in DOMAIN columns |-> "float64"],
   rows    |-> [r \in DOMAIN data |->
                  [c \in Range(columns) |-> data[r][IndexOf(columns, c)]]]]

\* df[name] = values, line 34: a new last column of strings
SetColumn(df, name, values) ==
  [columns |-> Append(df.columns, name),
   dtypes  |-> Append(df.dtypes, "object"),
   rows    |-> [r \in DOMAIN df.rows |->
                  [c \in Range(df.columns) \cup {name} |->
                     IF c = name THEN values[r] ELSE df.rows[r][c]]]]

\* lines 29-34: the frame the script builds from a bunch
BuildFrame(bunch) ==
  SetColumn(DataFrame(bunch.data, bunch.feature_names), "species",
            [r \in DOMAIN bunch.target |-> bunch.target_names[bunch.target[r] + 1]])

\* df[name]: the column as a sequence (SubSeq makes TLC build it once)
Column(df, name) ==
  SubSeq([r \in DOMAIN df.rows |-> df.rows[r][name]], 1, Len(df.rows))

\* df[names]: the sub-frame of the named columns
Project(df, names) ==
  [columns |-> names,
   dtypes  |-> [i \in DOMAIN names |-> df.dtypes[IndexOf(df.columns, names[i])]],
   rows    |-> [r \in DOMAIN df.rows |-> [c \in Range(names) |-> df.rows[r][c]]]]

\* len(df)
FrameLen(df) == Len(df.rows)

\* mutant of FrameHead: the whole frame
FrameHeadAll(df, n) == df

\* df.head(n)
FrameHead(df, n) ==
  [df EXCEPT !.rows = SubSeq(df.rows, 1, IF n < Len(df.rows) THEN n ELSE Len(df.rows))]

\* series.nunique()
NUnique(series) == Cardinality(Range(series))

\* df.select_dtypes(include=['float64', 'int64']).columns.tolist(), line 63
SelectNumeric(df) ==
  SelectSeq(df.columns,
            LAMBDA c : df.dtypes[IndexOf(df.columns, c)] \in {"float64", "int64"})

\* df.describe(): one entry per numeric column.  The mean is held as the
\* pair (sum, count); std and the quartiles are not represented.
Describe(df) ==
  LET cols == SelectNumeric(df)
  IN  [i \in DOMAIN cols |->
         LET s == Column(df, cols[i])
         IN  [column |-> cols[i], count |-> Len(s), sum |-> SumSeq(s),
              min |-> MinSeq(s), max |-> MaxSeq(s)]]

(***************************************************************************)
(* Streamlit.                                                              *)
(***************************************************************************)
\* one element sent to the page
Element(kind, label, value) == [kind |-> kind, label |-> label, value |-> value]

\* the widget state of a session that has run no widget yet
NoState == [k \in {} |-> 0]

SetState(state, key, value) ==
  [k \in DOMAIN state \cup {key} |-> IF k = key THEN value ELSE state[k]]

\* mutant of WidgetValue: the key is not looked up
WidgetValueDefault(state, key, default) == default

\* the value a keyed widget returns: the session's value for the key when
\* it has one, else the widget's default
WidgetValue(state, key, default) ==
  IF key \in DOMAIN state THEN state[key] ELSE default

\* st.sidebar.selectbox(label, options=options, index=index, key=key);
\* index is 0-based
Selectbox(state, options, index, key) == WidgetValue(state, key, options[index + 1])

\* slider bounds and default, lines 78-80
SliderMin == 5
SliderMax == 50
SliderDefault == 20

\* st.sidebar.slider(label, min_value, max_value, value, step=1, key=key)
Slider(state, value, key) == WidgetValue(state, key, value)

\* rows of st.dataframe(iris_df.head(10)), line 53
PreviewRows == 10

\* mutant of ScatterYIndex: the default index of the X-axis selectbox
ScatterYIndexZero(options) == 0

\* index= of the Y-axis selectbox, line 96
ScatterYIndex(options) == IF Len(options) > 1 THEN 1 ELSE 0

NoColumn == ""

NoView == <<>>

Emit(elements) == output' = output \o elements

(***************************************************************************)
(* The initial state: the session has just started its first script run.   *)
(***************************************************************************)
Init ==
  /\ pc = "start"
  /\ runs = 1
  /\ loadCount = 0
  /\ session_state = NoState
  /\ iris_df = NoFrame
  /\ numeric_columns = <<>>
  /\ selected_histogram_column = NoColumn
  /\ histogram_bins = 0
  /\ scatter_x_column = NoColumn
  /\ scatter_y_column = NoColumn
  /\ histogram = NoView
  /\ scatter = NoView
  /\ correlation_matrix = NoView
  /\ species_counts = NoView
  /\ output = <<>>

controls == <<selected_histogram_column, histogram_bins, scatter_x_column, scatter_y_column>>
views == <<histogram, scatter, correlation_matrix, species_counts>>

\* lines 14-26: page configuration, title and description
PageHeader ==
  /\ pc = "start"
  /\ Emit(<<Element("title", "Iris Dataset - Exploratory Data Analysis", 0),
            Element("markdown", "description", 0)>>)
  /\ pc' = "load"
  /\ UNCHANGED <<runs, loadCount, session_state, iris_df, numeric_columns, controls, views>>

\* lines 29-34: load_iris() returns and the frame is built
LoadDataset ==
  /\ pc = "load"
  /\ iris_df' = BuildFrame(load_iris)
  /\ loadCount' = loadCount + 1
  /\ pc' = "overview"
  /\ UNCHANGED <<runs, session_state, numeric_columns, controls, views, output>>

\* line 29: load_iris() raises (the packaged data file is missing or
\* malformed); the script run ends and Streamlit shows the exception
LoadFails ==
  /\ pc = "load"
  /\ Emit(<<Element("exception", "load_iris", 0)>>)
  /\ pc' = "failed"
  /\ UNCHANGED <<runs, loadCount, session_state, iris_df, numeric_columns, controls, views>>

\* lines 37-57: the three metrics, the preview table, the statistics table
DatasetOverview ==
  /\ pc = "overview"
  /\ Emit(<<Element("header", "Dataset Overview", 0),
            Element("metric", "Total Samples", FrameLen(iris_df)),
            Element("metric", "Total Features", Len(load_iris.feature_names)),
            Element("metric", "Species Classes", NUnique(Column(iris_df, "species"))),
            Element("subheader", "First 10 Rows", 0),
            Element("dataframe", "head", FrameHead(iris_df, PreviewRows)),
            Element("subheader", "Summary Statistics", 0),
            Element("dataframe", "describe", Describe(iris_df))>>)
  /\ pc' = "sidebar"
  /\ UNCHANGED <<runs, loadCount, session_state, iris_df, numeric_columns, controls, views>>

\* lines 60-98: the list of numeric columns and the four sidebar widgets
SidebarControls ==
  /\ pc = "sidebar"
  /\ LET cols == SelectNumeric(iris_df)
         hc   == Selectbox(session_state, cols, 0, "histogram_column")
         hb   == Slider(session_state, SliderDefault, "histogram_bins")
         sx   == Selectbox(session_state, cols, 0, "scatter_x")
         sy   == Selectbox(session_state, cols, ScatterYIndex(cols), "scatter_y")
     IN  /\ numeric_columns' = cols
         /\ selected_histogram_column' = hc
         /\ histogram_bins' = hb
         /\ scatter_x_column' = sx
         /\ scatter_y_column' = sy
         /\ session_state' =
              SetState(SetState(SetState(SetState(session_state,
                "histogram_column", hc), "histogram_bins", hb), "scatter_x", sx),
                "scatter_y", sy)
         /\ Emit(<<Element("header", "Data Visualization", 0),
                   Element("sidebar.header", "Visualization Settings", 0),
                   Element("sidebar.subheader", "Histogram Settings", 0),
                   Element("sidebar.selectbox", "Select a column for histogram:", hc),
                   Element("sidebar.slider", "Number of bins:", hb),
                   Element("sidebar.subheader", "Scatter Plot Settings", 0),
                   Element("sidebar.selectbox", "Select X-axis column:", sx),
                   Element("sidebar.selectbox", "Select Y-axis column:", sy)>>)
  /\ pc' = "histogram"
  /\ UNCHANGED <<runs, loadCount, iris_df, views>>

(***************************************************************************)
(* plotly: the histogram, lines 106-115.  px.histogram passes nbins on as  *)
(* the traces' nbinsx and puts the traces of all species in one bin group, *)
(* so that plotly.js chooses one set of bins from the whole column         *)
(* (axes.autoBin): nbinsx is the largest number of bins wanted, the bin    *)
(* size is the next "nice" size 2, 5 or 10 times a power of ten above      *)
(* (max - min) / nbinsx, and the first bin starts on a multiple of it.     *)
(***************************************************************************)
\* thousandths of a centimetre in a tenth of a centimetre
Milli(tenths) == tenths * 100

\* 10 ^ floor(log10(range / nbins)), for range >= nbins
RECURSIVE DTickBase(_, _, _)
DTickBase(range, nbins, base) ==
  IF 10 * base * nbins <= range THEN DTickBase(range, nbins, 10 * base) ELSE base

\* roundUp(size0 / base, [2, 5, 10]) * base: the first of them above size0
DTick(range, nbins) ==
  LET base == DTickBase(range, nbins, 1)
  IN  IF 2 * base * nbins > range THEN 2 * base
      ELSE IF 5 * base * nbins > range THEN 5 * base
      ELSE 10 * base

\* the first tick at or above dataMin, for tick0 = 0
TickFirst(dataMin, dtick) == dtick * ((dataMin + dtick - 1) \div dtick)

\* nearEdge in autoShiftNumericBins, at the position twice/2: is the value
\* within 1% of a bin edge?
NearEdge(twice, binStart, dtick) ==
  LET m == (twice - 2 * binStart) % (2 * dtick)
  IN  100 * m < 2 * dtick \/ 100 * m >= 99 * 2 * dtick

\* autoShiftNumericBins: move the first edge when the data sits on the edges
AutoShift(binStart, data, dtick, dataMin, dataMax) ==
  LET n         == Len(data)
      intcount  == Cardinality({i \in DOMAIN data : data[i] % 1000 = 0})
      edgecount == Cardinality({i \in DOMAIN data : NearEdge(2 * data[i], binStart, dtick)})
      midcount  == Cardinality({i \in DOMAIN data :
                                  NearEdge(2 * data[i] + dtick, binStart, dtick)})
      half      == dtick \div 2
  IN  IF intcount = n
      THEN IF dtick < 1000 THEN dataMin - half
           ELSE IF binStart - 500 + dtick < dataMin THEN binStart - 500 + dtick
                ELSE binStart - 500
      ELSE IF /\ 10 * midcount < n
              /\ \/ 10 * edgecount > 3 * n
                 \/ NearEdge(2 * dataMin, binStart, dtick)
                 \/ NearEdge(2 * dataMax, binStart, dtick)
           THEN IF binStart + half < dataMin THEN binStart + half ELSE binStart - half
           ELSE binStart

\* axes.autoBin(data, ax, nbins): start, end and size of the bins
AutoBin(data, nbins) ==
  LET dataMin  == MinSeq(data)
      dataMax  == MaxSeq(data)
      dtick    == DTick(dataMax - dataMin, nbins)
      binStart == AutoShift(TickFirst(dataMin, dtick) - dtick, data, dtick, dataMin, dataMax)
      bincount == 1 + ((dataMax - binStart) \div dtick)
  IN  [start |-> binStart, end |-> binStart + bincount * dtick, size |-> dtick]

\* the number of values of data in each bin of the grid
BinCounts(data, bins) ==
  [b \in 1..((bins.end - bins.start) \div bins.size) |->
     Cardinality({i \in DOMAIN data : (data[i] - bins.start) \div bins.size = b - 1})]

\* the values of column x in the rows of one species, in thousandths
SpeciesValues(df, x, species) ==
  LET rows == SelectSeq(df.rows, LAMBDA r : r["species"] = species)
  IN  [i \in DOMAIN rows |-> Milli(rows[i][x])]

\* px.histogram(df, x=x, nbins=nbins, color="species", barmode="overlay")
PxHistogram(df, x, nbins) ==
  LET names == Unique(Column(df, "species"))
      all   == [r \in DOMAIN df.rows |-> Milli(df.rows[r][x])]
      bins  == AutoBin(all, nbins)
  IN  [x |-> x, nbinsx |-> nbins, xbins |-> bins,
       traces |-> [t \in DOMAIN names |->
                     [name |-> names[t],
                      counts |-> BinCounts(SpeciesValues(df, x, names[t]), bins)]]]

(***************************************************************************)
(* plotly: the scatter plot, lines 125-136: one trace per species, one     *)
(* point per row.                                                          *)
(***************************************************************************)
\* mutant of PxScatter: both coordinates are read from the x column
PxScatterSameAxis(df, x, y) ==
  LET names == Unique(Column(df, "species"))
  IN  [x |-> x, y |-> y,
       traces |-> [t \in DOMAIN names |->
                     LET rows == SelectSeq(df.rows, LAMBDA r : r["species"] = names[t])
                     IN  [name |-> names[t],
                          points |-> [i \in DOMAIN rows |->
                                        [x |-> rows[i][x], y |-> rows[i][x],
                                         color |-> rows[i]["species"]]]]]]

PxScatter(df, x, y) ==
  LET names == Unique(Column(df, "species"))
  IN  [x |-> x, y |-> y,
       traces |-> [t \in DOMAIN names |->
                     LET rows == SelectSeq(df.rows, LAMBDA r : r["species"] = names[t])
                     IN  [name |-> names[t],
                          points |-> [i \in DOMAIN rows |->
                                        [x |-> rows[i][x], y |-> rows[i][y],
                                         color |-> rows[i]["species"]]]]]]

(***************************************************************************)
(* pandas: DataFrame.corr(), line 148 (Pearson, libalgos.nancorr).  An     *)
(* entry is covxy / sqrt(ssqdm_x * ssqdm_y), or NaN when that divisor is   *)
(* 0.  The three sums are held multiplied by the number of rows, which     *)
(* leaves the quotient as it is, and the entry is held as its sign and     *)
(* its square num / den.  The products exceed 2^31 and are held as three   *)
(* digits to the base 2^15, least significant first.                       *)
(***************************************************************************)
Limb == 2 ^ 15

\* a * b for 0 <= a, b < 2^30
Product(a, b) ==
  LET a0  == a % Limb
      a1  == a \div Limb
      b0  == b % Limb
      b1  == b \div Limb
      low == a0 * b0
      mid == a1 * b0 + a0 * b1 + (low \div Limb)
  IN  <<low % Limb, mid % Limb, a1 * b1 + (mid \div Limb)>>

Abs(a) == IF a < 0 THEN 0 - a ELSE a

Sign(a) == IF a < 0 THEN 0 - 1 ELSE IF a > 0 THEN 1 ELSE 0

NaN == [nan |-> TRUE, sign |-> 0, num |-> <<0, 0, 0>>, den |-> <<0, 0, 0>>]

\* mutant of Pearson: the covariance, not divided by the deviations
PearsonCovariance(covxy, ssqdm_x, ssqdm_y) ==
  IF ssqdm_x = 0 \/ ssqdm_y = 0 THEN NaN
  ELSE [nan |-> FALSE, sign |-> Sign(covxy),
        num |-> Product(Abs(covxy), Abs(covxy)),
        den |-> Product(1, 1)]

\* mutant of Pearson: 0 where the divisor is 0
PearsonZero(covxy, ssqdm_x, ssqdm_y) ==
  [nan |-> FALSE, sign |-> IF ssqdm_x = 0 \/ ssqdm_y = 0 THEN 0 ELSE Sign(covxy),
   num |-> Product(Abs(covxy), Abs(covxy)),
   den |-> Product(ssqdm_x, ssqdm_y)]

\* one entry of the matrix, from the three sums of nancorr
Pearson(covxy, ssqdm_x, ssqdm_y) ==
  IF ssqdm_x = 0 \/ ssqdm_y = 0 THEN NaN
  ELSE [nan |-> FALSE, sign |-> Sign(covxy),
        num |-> Product(Abs(covxy), Abs(covxy)),
        den |-> Product(ssqdm_x, ssqdm_y)]

\* nancorr computes the entries yi <= xi and stores each at [xi, yi] and at
\* [yi, xi].  moment(i, j) is n * sum((x - mean(x)) * (y - mean(y))) for the
\* columns i and j (SubSeq makes TLC build each table of sums once).
Corr(df) ==
  LET k      == Len(df.columns)
      n      == Len(df.rows)
      X      == SubSeq([i \in 1..k |-> Column(df, df.columns[i])], 1, k)
      sums   == SubSeq([i \in 1..k |-> SumSeq(X[i])], 1, k)
      cross  == SubSeq([i \in 1..k |->
                  SubSeq([j \in 1..i |-> SumSeq([r \in 1..n |-> X[i][r] * X[j][r]])],
                         1, i)], 1, k)
      moment(i, j) == n * cross[i][j] - sums[i] * sums[j]
      lower  == SubSeq([i \in 1..k |->
                  SubSeq([j \in 1..i |-> Pearson(moment(i, j), moment(i, i), moment(j, j))],
                         1, i)], 1, k)
  IN  [columns |-> df.columns,
       values  |-> [xi \in 1..k |-> [yi \in 1..k |->
                      IF yi <= xi THEN lower[xi][yi] ELSE lower[yi][xi]]]]

\* go.Figure(data=go.Heatmap(z=m.values, x=m.columns, y=m.columns, ...))
Heatmap(m) == [z |-> m.values, x |-> m.columns, y |-> m.columns]

(***************************************************************************)
(* pandas and plotly: the species counts and the pie, lines 172-178.       *)
(***************************************************************************)
\* insert p into a sequence sorted by falling count, after its equals
RECURSIVE InsertByCount(_, _)
InsertByCount(s, p) ==
  IF s = <<>> THEN <<p>>
  ELSE IF Head(s).count >= p.count THEN <<Head(s)>> \o InsertByCount(Tail(s), p)
  ELSE <<p>> \o s

RECURSIVE SortByCount(_)
SortByCount(s) ==
  IF s = <<>> THEN <<>>
  ELSE InsertByCount(SortByCount(SubSeq(s, 1, Len(s) - 1)), s[Len(s)])

\* mutant of ValueCounts: one entry per row
ValueCountsRows(series) == [i \in DOMAIN series |-> [index |-> series[i], count |-> 1]]

\* series.value_counts(): each distinct value with the number of rows
\* holding it, the largest count first
ValueCounts(series) ==
  LET names == Unique(series)
  IN  SortByCount([i \in DOMAIN names |->
                     [index |-> names[i], count |-> Count(series, names[i])]])

\* px.pie(values=counts.values, names=counts.index): one slice per entry
PxPie(counts) ==
  [i \in DOMAIN counts |-> [name |-> counts[i].index, value |-> counts[i].count]]

(***************************************************************************)
(* The rest of the script.                                                 *)
(***************************************************************************)
\* lines 104-120
ShowHistogram ==
  /\ pc = "histogram"
  /\ histogram' = PxHistogram(iris_df, selected_histogram_column, histogram_bins)
  /\ Emit(<<Element("subheader", "Histogram", selected_histogram_column),
            Element("plotly_chart", "histogram", histogram')>>)
  /\ pc' = "scatter"
  /\ UNCHANGED <<runs, loadCount, session_state, iris_df, numeric_columns, controls,
                 scatter, correlation_matrix, species_counts>>

\* lines 123-141
ShowScatter ==
  /\ pc = "scatter"
  /\ scatter' = PxScatter(iris_df, scatter_x_column, scatter_y_column)
  /\ Emit(<<Element("subheader", "Scatter Plot", <<scatter_x_column, scatter_y_column>>),
            Element("plotly_chart", "scatter", scatter')>>)
  /\ pc' = "heatmap"
  /\ UNCHANGED <<runs, loadCount, session_state, iris_df, numeric_columns, controls,
                 histogram, correlation_matrix, species_counts>>

\* lines 144-168
ShowHeatmap ==
  /\ pc = "heatmap"
  /\ correlation_matrix' = Corr(Project(iris_df, numeric_columns))
  /\ Emit(<<Element("header", "Correlation Analysis", 0),
            Element("subheader", "Correlation Matrix Heatmap", 0),
            Element("plotly_chart", "heatmap", Heatmap(correlation_matrix'))>>)
  /\ pc' = "pie"
  /\ UNCHANGED <<runs, loadCount, session_state, iris_df, numeric_columns, controls,
                 histogram, scatter, species_counts>>

\* lines 171-180
ShowPie ==
  /\ pc = "pie"
  /\ species_counts' = ValueCounts(Column(iris_df, "species"))
  /\ Emit(<<Element("header", "Species Distribution", 0),
            Element("plotly_chart", "pie", PxPie(species_counts'))>>)
  /\ pc' = "footer"
  /\ UNCHANGED <<runs, loadCount, session_state, iris_df, numeric_columns, controls,
                 histogram, scatter, correlation_matrix>>

\* lines 183-187; the run ends and the session waits for input
Footer ==
  /\ pc = "footer"
  /\ Emit(<<Element("markdown", "---", 0), Element("markdown", "Dataset Source", 0)>>)
  /\ pc' = "done"
  /\ UNCHANGED <<runs, loadCount, session_state, iris_df, numeric_columns, controls, views>>

(***************************************************************************)
(* The user changes one widget: Streamlit stores the new value under the   *)
(* widget's key and runs the script again from the top, with no name       *)
(* bound and nothing on the page of the new pass yet.                      *)
(***************************************************************************)
Rerun(key, value) ==
  /\ pc = "done"
  /\ runs < MaxRuns
  /\ session_state[key] # value
  /\ session_state' = SetState(session_state, key, value)
  /\ runs' = runs + 1
  /\ pc' = "start"
  /\ iris_df' = NoFrame
  /\ numeric_columns' = <<>>
  /\ selected_histogram_column' = NoColumn
  /\ histogram_bins' = 0
  /\ scatter_x_column' = NoColumn
  /\ scatter_y_column' = NoColumn
  /\ histogram' = NoView
  /\ scatter' = NoView
  /\ correlation_matrix' = NoView
  /\ species_counts' = NoView
  /\ output' = <<>>
  /\ UNCHANGED loadCount

\* the selectbox of line 70 offers the options it was drawn with
ChangeHistogramColumn ==
  \E v \in Range(numeric_columns) : Rerun("histogram_column", v)

\* the slider of line 76 offers min_value..max_value in steps of 1
ChangeHistogramBins ==
  \E v \in SliderMin..SliderMax : Rerun("histogram_bins", v)

\* the selectbox of line 87
ChangeScatterX ==
  \E v \in Range(numeric_columns) : Rerun("scatter_x", v)

\* the selectbox of line 93
ChangeScatterY ==
  \E v \in Range(numeric_columns) : Rerun("scatter_y", v)

Next ==
  \/ PageHeader
  \/ LoadDataset
  \/ LoadFails
  \/ DatasetOverview
  \/ SidebarControls
  \/ ShowHistogram
  \/ ShowScatter
  \/ ShowHeatmap
  \/ ShowPie
  \/ Footer
  \/ ChangeHistogramColumn
  \/ ChangeHistogramBins
  \/ ChangeScatterX
  \/ ChangeScatterY

Spec == Init /\ [][Next]_vars

(***************************************************************************)
(* A second specification, for the correlation section on data with        *)
(* columns of zero variance: the script stands before line 143 of a first  *)
(* pass over the Iris frame with some of its numeric columns overwritten   *)
(* by a constant.  What the pass has sent to the page before that line is  *)
(* left out.                                                               *)
(***************************************************************************)
\* the largest constant (in tenths) a column is overwritten with
MaxConst == 7

\* the frame with each column of zs holding c in every row
Overwrite(df, zs, c) ==
  [df EXCEPT !.rows = [r \in DOMAIN df.rows |->
                         [col \in Range(df.columns) |->
                            IF col \in zs THEN c ELSE df.rows[r][col]]]]

InitDegenerate ==
  /\ pc = "heatmap"
  /\ runs = 1
  /\ loadCount = 1
  /\ \E zs \in SUBSET Range(IrisFeatureNames) : \E c \in 0..MaxConst :
       iris_df = Overwrite(BuildFrame(load_iris), zs, c)
  /\ numeric_columns = SelectNumeric(iris_df)
  /\ selected_histogram_column = numeric_columns[1]
  /\ histogram_bins = SliderDefault
  /\ scatter_x_column = numeric_columns[1]
  /\ scatter_y_column = numeric_columns[ScatterYIndex(numeric_columns) + 1]
  /\ session_state =
       SetState(SetState(SetState(SetState(NoState,
         "histogram_column", selected_histogram_column), "histogram_bins", histogram_bins),
         "scatter_x", scatter_x_column), "scatter_y", scatter_y_column)
  /\ histogram = NoView
  /\ scatter = NoView
  /\ correlation_matrix = NoView
  /\ species_counts = NoView
  /\ output = <<>>

NextTail ==
  \/ ShowHeatmap
  \/ ShowPie
  \/ Footer

SpecDegenerate == InitDegenerate /\ [][NextTail]_vars

(***************************************************************************)
(* Properties.                                                             *)
(***************************************************************************)
WidgetKeys == {"histogram_column", "histogram_bins", "scatter_x", "scatter_y"}

\* the script has read the four widgets in this pass
ControlsRead == pc \in {"histogram", "scatter", "heatmap", "pie", "footer", "done"}

\* the keys whose stored value differs between this state and the next
ChangedKeys == {k \in DOMAIN session_state : session_state'[k] # session_state[k]}

\* the value of the element of the page with the given label
ValueOf(label) == output[CHOOSE i \in DOMAIN output : output[i].label = label].value

Emitted(label) == \E i \in DOMAIN output : output[i].label = label

\* C1: a widget change stores the new value under that widget's key and
\* under no other key, no step of a render pass changes a stored value, and
\* the values the pass reads from the widgets are the stored ones: so after
\* the pass one control has the new value and the other three have the
\* values they had before the change.
FieldIndependence ==
  /\ [][/\ (pc = "done" /\ pc' = "start") =>
             /\ DOMAIN session_state' = DOMAIN session_state
             /\ Cardinality(ChangedKeys) = 1
        /\ ~(pc = "done" /\ pc' = "start") => ChangedKeys = {}]_vars
  /\ [](ControlsRead =>
          /\ DOMAIN session_state = WidgetKeys
          /\ selected_histogram_column = session_state["histogram_column"]
          /\ histogram_bins = session_state["histogram_bins"]
          /\ scatter_x_column = session_state["scatter_x"]
          /\ scatter_y_column = session_state["scatter_y"])

\* C1 witness: the pass after a change of the bins slider alone has ended
BinsChangedAlone ==
  /\ pc = "done"
  /\ runs = 2
  /\ histogram_bins = 35
  /\ selected_histogram_column = numeric_columns[1]
  /\ scatter_x_column = numeric_columns[1]
  /\ scatter_y_column = numeric_columns[2]

Content == SelectSeq(output, LAMBDA e : e.kind \in {"metric", "dataframe", "plotly_chart"})

ContentLabels == [i \in DOMAIN Content |-> Content[i].label]

ContentOrder ==
  <<"Total Samples", "Total Features", "Species Classes", "head", "describe",
    "histogram", "scatter", "heatmap", "pie">>

\* C3: what a pass has sent so far is always a prefix of the fixed order
\* (three metrics, preview table, statistics table, histogram, scatter,
\* heatmap, pie); a pass that has ended has sent all of it: the metrics
\* 150, 4 and 3, the first 10 records, and the four views computed in this
\* pass from this pass's controls.
RenderOrder ==
  /\ Len(ContentLabels) <= Len(ContentOrder)
  /\ ContentLabels = SubSeq(ContentOrder, 1, Len(ContentLabels))
  /\ pc = "done" =>
       /\ ContentLabels = ContentOrder
       /\ ValueOf("Total Samples") = 150
       /\ ValueOf("Total Features") = 4
       /\ ValueOf("Species Classes") = 3
       /\ ValueOf("head").rows = SubSeq(iris_df.rows, 1, 10)
       /\ Len(ValueOf("describe")) = 4
       /\ histogram # NoView /\ ValueOf("histogram") = histogram
       /\ histogram.x = selected_histogram_column /\ histogram.nbinsx = histogram_bins
       /\ scatter # NoView /\ ValueOf("scatter") = scatter
       /\ scatter.x = scatter_x_column /\ scatter.y = scatter_y_column
       /\ correlation_matrix # NoView /\ ValueOf("heatmap").z = correlation_matrix.values
       /\ species_counts # NoView /\ Len(ValueOf("pie")) = Len(species_counts)

\* C3 witness: a pass started by a change of the scatter X column, which
\* the histogram does not read, has ended with all of the page sent
RerenderedAfterScatterChange ==
  /\ pc = "done"
  /\ runs = 2
  /\ scatter_x_column = "petal length (cm)"
  /\ Emitted("histogram") /\ Emitted("pie")

\* the number of bins of the histogram and the rows counted in them
HistogramBinCount == (histogram.xbins.end - histogram.xbins.start) \div histogram.xbins.size

HistogramTotal ==
  SumSeq([t \in DOMAIN histogram.traces |-> SumSeq(histogram.traces[t].counts)])

\* C4: the histogram of a pass has exactly histogram_bins bins of one
\* width that cover the column from its least to its greatest value, and
\* the counts of the 3 species over all bins sum to 150.
HistogramExactBins ==
  pc = "done" =>
    LET column == Column(iris_df, selected_histogram_column)
    IN  /\ HistogramBinCount = histogram_bins
        /\ \A t \in DOMAIN histogram.traces :
             Len(histogram.traces[t].counts) = histogram_bins
        /\ histogram.xbins.start <= Milli(MinSeq(column))
        /\ Milli(MaxSeq(column)) <= histogram.xbins.end
        /\ Len(histogram.traces) = 3
        /\ HistogramTotal = 150

\* the points of the scatter view, trace after trace
RECURSIVE Flatten(_)
Flatten(ss) == IF ss = <<>> THEN <<>> ELSE Head(ss) \o Flatten(Tail(ss))

ScatterPoints == Flatten([t \in DOMAIN scatter.traces |-> scatter.traces[t].points])

\* C5: the scatter view has 150 points, the point of record r being
\* (r[scatter_x_column], r[scatter_y_column]) with r's species as colour
\* (the records of a species are consecutive in the frame, so the traces
\* taken one after the other list the records in the frame's order), and
\* with the same column on both axes every point has x = y.
ScatterOnePointPerRecord ==
  pc = "done" =>
    /\ Len(ScatterPoints) = 150
    /\ Len(iris_df.rows) = 150
    /\ \A r \in DOMAIN iris_df.rows :
         /\ ScatterPoints[r].x = iris_df.rows[r][scatter_x_column]
         /\ ScatterPoints[r].y = iris_df.rows[r][scatter_y_column]
         /\ ScatterPoints[r].color = iris_df.rows[r]["species"]
    /\ \A t \in DOMAIN scatter.traces : \A i \in DOMAIN scatter.traces[t].points :
         scatter.traces[t].points[i].color = scatter.traces[t].name
    /\ scatter_x_column = scatter_y_column =>
         \A r \in DOMAIN ScatterPoints : ScatterPoints[r].x = ScatterPoints[r].y

\* C5 witness: a pass has drawn the scatter with sepal width on both axes
ScatterOnDiagonal ==
  /\ pc = "done"
  /\ scatter_x_column = "sepal width (cm)"
  /\ scatter_y_column = "sepal width (cm)"
  /\ Len(ScatterPoints) = 150

\* the entry is exactly 1.0
IsOne(entry) == ~entry.nan /\ entry.sign = 1 /\ entry.num = entry.den

\* C6: the correlation matrix of a pass is 4 x 4 over the numeric columns,
\* symmetric, with every diagonal entry exactly 1.0, whatever the controls.
CorrelationSymmetric ==
  pc = "done" =>
    /\ correlation_matrix.columns = numeric_columns
    /\ Len(correlation_matrix.values) = 4
    /\ \A i \in 1..4 :
         /\ Len(correlation_matrix.values[i]) = 4
         /\ IsOne(correlation_matrix.values[i][i])
         /\ \A j \in 1..4 :
              correlation_matrix.values[i][j] = correlation_matrix.values[j][i]
    /\ ValueOf("heatmap").z = correlation_matrix.values

\* C6 witness: a pass with controls off their defaults has computed the
\* matrix, with an off-diagonal entry that is negative and not -1
CorrelationComputed ==
  /\ pc = "done"
  /\ histogram_bins # 20
  /\ correlation_matrix.values[1][2].sign = 0 - 1
  /\ correlation_matrix.values[1][2].num # correlation_matrix.values[1][2].den

\* C7: the pie has one slice per distinct species, 3 of them, each holding
\* the number of records of that species, 50, and 150 together.
PieSlices ==
  pc = "done" =>
    LET pie == ValueOf("pie")
        species == Column(iris_df, "species")
    IN  /\ Len(pie) = 3
        /\ {pie[i].name : i \in DOMAIN pie} = Range(species)
        /\ \A i \in DOMAIN pie :
             /\ pie[i].value = Count(species, pie[i].name)
             /\ pie[i].value = 50
        /\ SumSeq([i \in DOMAIN pie |-> pie[i].value]) = 150

\* C7 witness: a pass with the scatter X column changed has drawn the pie
PieDrawnAfterChange ==
  /\ pc = "done"
  /\ scatter_x_column = "petal width (cm)"
  /\ Emitted("pie")
  /\ Len(species_counts) = 3

\* C8: the dataset is loaded exactly once in the life of the session, and
\* the frame a pass holds after loading is the 150 records with 4 numeric
\* columns and 1 label column.
DatasetLoadedOnce ==
  /\ loadCount <= 1
  /\ pc \notin {"start", "load", "failed"} =>
       /\ Len(iris_df.rows) = 150
       /\ Len(SelectNumeric(iris_df)) = 4
       /\ Len(iris_df.columns) = 5

\* C9: a run whose load has failed has sent no element of the page (no
\* title, description, metric, table, control or chart).
FailedLoadShowsNothing ==
  pc = "failed" => \A i \in DOMAIN output : output[i].kind = "exception"

\* the column holds one value in every row
ZeroVariance(df, name) == Cardinality(Range(Column(df, name))) = 1

\* C10: with columns of zero variance the entries of the matrix that involve
\* such a column are NaN and the others are numbers, and the pass goes on
\* (it is in no failed state): the heatmap is sent with those entries and
\* the pie is sent after it.
DegenerateCorrelation ==
  /\ pc \in {"pie", "footer", "done"} =>
       /\ \A i, j \in DOMAIN numeric_columns :
            correlation_matrix.values[i][j].nan <=>
              \/ ZeroVariance(iris_df, numeric_columns[i])
              \/ ZeroVariance(iris_df, numeric_columns[j])
       /\ ContentLabels[1] = "heatmap"
       /\ ValueOf("heatmap").z = correlation_matrix.values
  /\ pc \in {"footer", "done"} =>
       /\ ContentLabels = <<"heatmap", "pie">>
       /\ Len(ValueOf("pie")) = 3
  /\ pc \in {"heatmap", "pie", "footer", "done"}

\* C10 witness: a pass over a frame with a column of zero variance and a
\* column of positive variance has ended, with NaN in the matrix it sent
DegeneratePassEnded ==
  /\ pc = "done"
  /\ ZeroVariance(iris_df, numeric_columns[2])
  /\ ~ZeroVariance(iris_df, numeric_columns[1])
  /\ ValueOf("heatmap").z[1][2].nan
  /\ ~ValueOf("heatmap").z[1][1].nan

====
